---------------------------- MODULE Spec2Model ----------------------------
(***************************************************************************)
(* Model of the CareBot emotional-state engine (EVC v4) and of the request *)
(* handlers around it.                                                     *)
(*                                                                         *)
(* Numbers.  The code computes with binary floating point.  The model uses *)
(* fixed point, every quantity an integer number of units:                 *)
(*   - emotion features            : tenths        (0.1)                   *)
(*   - stimulus of a hormone       : thousandths   (0.001)                 *)
(*   - hormone levels, S, D, K     : 1/10000       (0.0001)                *)
(*   - energies inside update_evc  : millionths    (0.000001)              *)
(*   - energies stored in EVCState : 1/10000, the grid of round(x, 4)      *)
(* A product that does not fall on the grid is rounded to the nearest      *)
(* unit, as floating point rounds to the nearest representable value.      *)
(***************************************************************************)
EXTENDS Integers, Sequences, FiniteSets, TLC

VARIABLES
    state,          \* engine session: the EVCState handed from turn to turn
    forces,         \* engine session: the EVCForces returned by the last update_evc
    emotion,        \* engine session: the EmotionFeatures given to the last update_evc
    bias_gain,      \* coefficient of the therapeutic bias (fixed by the implementation)
    store,          \* InMemoryStore._users: user -> stored evc_state, or NoState
    conversations,  \* InMemoryStore._conversations: user -> sequence of messages
    tasks,          \* request tasks of the event loop: task -> its handler's locals
    requests,       \* number of requests accepted so far
    returned        \* the last call of a function called on its own: name, arguments, value

vars == <<state, forces, emotion, bias_gain, store, conversations, tasks, requests,
          returned>>

\* no function has been called on its own yet
NoReturn == [fn |-> "none", args |-> <<>>, value |-> 0]

----------------------------------------------------------------------------
(* Arithmetic helpers *)

\* max, min and abs of Python; each operand is bound to its value once
Max(a, b) ==
    CHOOSE m \in {IF x >= y THEN x ELSE y : x \in {a}, y \in {b}} : TRUE
Min(a, b) ==
    CHOOSE m \in {IF x <= y THEN x ELSE y : x \in {a}, y \in {b}} : TRUE
Abs(a) == CHOOSE m \in {IF x < 0 THEN -x ELSE x : x \in {a}} : TRUE

\* a / b rounded to the nearest integer (b > 0), halves upward
RoundDiv(a, b) == (2 * a + b) \div (2 * b)

\* round(x, 4) of an energy held in millionths: the result is in 1/10000
Round4(x) == RoundDiv(x, 100)

\* a stored 1/10000 value read back as millionths
ToMicro(x) == x * 100

\* engine.py clamp with its two maxima swapped for minima by mistake
clampSwapped(value, min_val, max_val) == Max(min_val, Max(max_val, value))

\* engine.py: clamp(value, min_val, max_val)
clamp(value, min_val, max_val) == Max(min_val, Min(max_val, value))

----------------------------------------------------------------------------
(* models/evc_models.py: Intent, EmotionFeatures *)

Intents == {"greeting", "venting", "seeking_help", "praise", "apology",
            "sarcasm", "aggression", "neutral", "farewell"}

\* EmotionFeatures with the defaults of its fields (tenths)
DefaultEmotion ==
    [valence |-> 0, arousal |-> 5, dominance |-> 5, intent |-> "neutral",
     sarcasm_prob |-> 0, support_need |-> 5, uncertainty |-> 3]

\* the range constraints (ge/le) of EmotionFeatures
ValidEmotion(e) ==
    /\ e.valence \in -10..10
    /\ e.arousal \in 0..10
    /\ e.dominance \in 0..10
    /\ e.intent \in Intents
    /\ e.sarcasm_prob \in 0..10
    /\ e.support_need \in 0..10
    /\ e.uncertainty \in 0..10

----------------------------------------------------------------------------
(* evc/hormones/cocktail.py, evc/hormones/definitions.py: the 8 hormones *)

HORMONE_ORDER ==
    <<"serotonin", "dopamine", "cortisol", "oxytocin",
      "adrenaline", "endorphin", "gaba", "norepinephrine">>

Hormones == {HORMONE_ORDER[i] : i \in 1..Len(HORMONE_ORDER)}

\* baseline of each hormone (1/10000); a fresh hormone starts at its baseline
baseline ==
    [serotonin |-> 30000, dopamine |-> 20000, cortisol |-> 10000,
     oxytocin |-> 10000, adrenaline |-> 5000, endorphin |-> 15000,
     gaba |-> 20000, norepinephrine |-> 15000]

\* half_life of each hormone (turns)
half_life ==
    [serotonin |-> 6, dopamine |-> 2, cortisol |-> 8, oxytocin |-> 4,
     adrenaline |-> 1, endorphin |-> 3, gaba |-> 3, norepinephrine |-> 2]

\* max_production of each hormone (tenths)
max_production ==
    [serotonin |-> 15, dopamine |-> 30, cortisol |-> 20, oxytocin |-> 15,
     adrenaline |-> 50, endorphin |-> 20, gaba |-> 20, norepinephrine |-> 25]

\* HormoneBase.decay_rate: 0.5 ^ (1 / half_life), in 1/10000
decay_rate(hl) ==
    CASE hl = 1 -> 5000
      [] hl = 2 -> 7071
      [] hl = 3 -> 7937
      [] hl = 4 -> 8409
      [] hl = 6 -> 8909
      [] hl = 8 -> 9170

LevelMax == 100000

\* compute_stimulus of each hormone class, in thousandths
compute_stimulus(name, e) ==
    LET pos_val == Max(0, e.valence)
        neg_val == Max(0, -e.valence)
        calm == Max(0, 10 - e.arousal)
    IN  CASE name = "serotonin" ->
               50 * pos_val + 30 * calm + 20 * (10 - e.uncertainty)
          [] name = "dopamine" ->
               Min(1000, 6 * pos_val * e.arousal
                         + (IF e.intent = "praise" THEN 200 ELSE 0))
          [] name = "cortisol" ->
               Min(1000, 50 * neg_val + 50 * e.arousal + 30 * e.uncertainty)
          [] name = "oxytocin" ->
               Min(1000, 30 * (10 - e.sarcasm_prob)
                         + (IF e.intent \in {"praise", "apology"} THEN 400 ELSE 0)
                         + 30 * pos_val)
          [] name = "adrenaline" ->
               Min(1000, 5 * neg_val * e.arousal
                         + (IF e.support_need > 8 THEN 500 ELSE 0)
                         + (IF e.intent = "complaint" /\ e.dominance > 7
                            THEN 300 ELSE 0))
          [] name = "endorphin" ->
               Min(1000, Max(0, 250 + 25 * e.valence)
                         + (IF e.intent = "venting" THEN 300 ELSE 0)
                         + 20 * calm)
          [] name = "gaba" ->
               Min(1000, 40 * calm + Max(0, 150 + 15 * e.valence)
                         + 30 * Max(0, 10 - e.support_need))
          [] name = "norepinephrine" ->
               Min(1000, 60 * e.arousal + 20 * Abs(e.valence) + 20 * e.dominance)

\* HormoneBase.produce with the cap at 10 left out
produce_uncapped(name, level, stimulus) ==
    level + stimulus * max_production[name]

\* HormoneBase.produce: level after adding stimulus * max_production
produce(name, level, stimulus) ==
    Min(LevelMax, level + stimulus * max_production[name])

\* HormoneBase.suppress
suppress(level, amount) == Max(0, level - amount)

\* HormoneBase.stimulate
stimulate(level, amount) == Min(LevelMax, level + amount)

\* decay toward zero: the level itself times decay_rate
decay_to_zero(name, level) ==
    RoundDiv(level * decay_rate(half_life[name]), 10000)

\* HormoneBase.decay: the offset from the baseline times decay_rate
decay(name, level) ==
    baseline[name]
      + RoundDiv((level - baseline[name]) * decay_rate(half_life[name]), 10000)

\* INTERACTION_MATRIX[i][j]: effect of hormone j on hormone i, in hundredths
INTERACTION_MATRIX ==
    << <<  0,  10, -20,  10,   0,  10,  10,   0>>,
       << 10,   0,   0,   0,  10,   0,   0,  10>>,
       <<-15,  -5,   0, -15,  20, -10, -10,  10>>,
       << 15,   0, -15,   0, -10,  10,  15,   0>>,
       <<-10,   5,  15,  -5,   0,   0, -25,  15>>,
       << 10,   0, -10,  10,  -5,   0,  10,   0>>,
       << 10,   0, -10,  10, -15,   5,   0, -10>>,
       <<  0,  10,  10,   0,  20,   0, -10,   0>> >>

\* E_WEIGHTS, in hundredths
E_WEIGHTS ==
    [serotonin |-> 25, dopamine |-> 15, cortisol |-> -25, oxytocin |-> 15,
     adrenaline |-> -10, endorphin |-> 10, gaba |-> 5, norepinephrine |-> -5]

\* sum of f[i] for i in 1..n
RECURSIVE SumTo(_, _)
SumTo(f, n) == IF n = 0 THEN 0 ELSE f[n] + SumTo(f, n - 1)

\* HormoneCocktail.update, step 1: every hormone produces
Production(levels, e) ==
    [n \in Hormones |-> produce(n, levels[n], compute_stimulus(n, e))]

\* interaction_sum of target i over the snapshot `levels` (1/10000):
\* sum of weight * level / 10, the weights being hundredths
interaction_sum(levels, i) ==
    RoundDiv(SumTo([j \in 1..8 |->
                      IF i = j THEN 0
                      ELSE INTERACTION_MATRIX[i][j] * levels[HORMONE_ORDER[j]]],
                   8),
             1000)

\* HormoneCocktail._apply_interactions: all targets from one snapshot
apply_interactions(levels) ==
    [n \in Hormones |->
        LET i == CHOOSE k \in 1..8 : HORMONE_ORDER[k] = n
            s == interaction_sum(levels, i)
        IN  IF s > 0 THEN stimulate(levels[n], s)
            ELSE IF s < 0 THEN suppress(levels[n], Abs(s))
            ELSE levels[n]]

\* the body of the target loop of _apply_interactions for target i: its
\* level in `levels` is adjusted by the interaction_sum over `snapshot`
interact_target(levels, snapshot, i) ==
    LET n == HORMONE_ORDER[i]
        s == interaction_sum(snapshot, i)
    IN  [levels EXCEPT ![n] = IF s > 0 THEN stimulate(levels[n], s)
                              ELSE IF s < 0 THEN suppress(levels[n], Abs(s))
                              ELSE levels[n]]

\* levels read by a loop that looks at the hormones again for every target
live_levels(collected, current) == current

\* the levels a target's interaction_sum is taken over: the list collected
\* before the loop, whatever the loop has written since
snapshot_levels(collected, current) == collected

\* the target loop of _apply_interactions over the first k targets of `order`
RECURSIVE apply_interactions_loop(_, _, _, _)
apply_interactions_loop(levels, collected, order, k) ==
    IF k = 0 THEN levels
    ELSE LET before == apply_interactions_loop(levels, collected, order, k - 1)
         IN  interact_target(before, snapshot_levels(collected, before),
                             order[k])

\* HormoneCocktail.update, step 3: every hormone decays
Decay(levels) == [n \in Hormones |-> decay(n, levels[n])]

\* HormoneCocktail.update: production, interaction, decay
cocktail_update(levels, e) == Decay(apply_interactions(Production(levels, e)))

\* the sum of the levels with the weight table left out, in millionths
compute_E_unweighted(levels) ==
    Max(-10000000,
        Min(10000000,
            SumTo([j \in 1..8 |-> 100 * levels[HORMONE_ORDER[j]]], 8)))

\* HormoneCocktail.compute_E: weighted sum of the levels, in millionths
compute_E(levels) ==
    Max(-10000000,
        Min(10000000,
            SumTo([j \in 1..8 |->
                     E_WEIGHTS[HORMONE_ORDER[j]] * levels[HORMONE_ORDER[j]]], 8)))

\* state_map of get_dominant_state
state_map ==
    [serotonin |-> "content", dopamine |-> "excited", cortisol |-> "stressed",
     oxytocin |-> "trusting", adrenaline |-> "alert", endorphin |-> "relieved",
     gaba |-> "calm", norepinephrine |-> "focused"]

\* the loop of get_dominant_state over the first n hormones:
\* <<max_diff, dominant>>, a later hormone winning only when strictly larger
RECURSIVE dominant_scan(_, _)
dominant_scan(levels, n) ==
    IF n = 0 THEN <<-9990000, "neutral">>
    ELSE LET prev == dominant_scan(levels, n - 1)
             name == HORMONE_ORDER[n]
             diff == levels[name] - baseline[name]
         IN  IF diff > prev[1] THEN <<diff, state_map[name]>> ELSE prev

\* get_dominant_state that also reports "neutral" at a difference of 0.5
get_dominant_state_above(levels) ==
    LET r == dominant_scan(levels, 8)
    IN  IF r[1] <= 5000 THEN "neutral" ELSE r[2]

\* HormoneCocktail.get_dominant_state
get_dominant_state(levels) ==
    LET r == dominant_scan(levels, 8)
    IN  IF r[1] < 5000 THEN "neutral" ELSE r[2]

\* create_all_hormones / HormoneCocktail(): all 8 hormones at their baselines
create_all_hormones == [n \in Hormones |-> baseline[n]]

\* restore_levels that replaces the levels: a hormone missing from the map
\* is left at the 0.0 default of HormoneBase.level
restore_levels_replace(hormones, levels) ==
    [n \in Hormones |-> IF n \in DOMAIN levels THEN levels[n] ELSE 0]

\* HormoneCocktail.restore_levels: entries naming a hormone overwrite its level
restore_levels(hormones, levels) ==
    [n \in Hormones |-> IF n \in DOMAIN levels THEN levels[n] ELSE hormones[n]]

\* HormoneCocktail.serialize_levels
serialize_levels(hormones) == [n \in Hormones |-> hormones[n]]

----------------------------------------------------------------------------
(* models/evc_models.py: EVCFlags, EVCForces *)

\* EVCFlags(): every flag false
NoFlags ==
    [sarcasm |-> FALSE, anger |-> FALSE, anxiety |-> FALSE, stress |-> FALSE,
     crisis |-> FALSE, boundary_setting |-> FALSE, mood_swing |-> FALSE]

\* EVCForces(): the defaults S = 0, D = 0, K = 1 (1/10000)
NoForces == [S |-> 0, D |-> 0, K |-> 10000]

----------------------------------------------------------------------------
(* evc/scoring.py: S, D and K in 1/10000 *)

\* compute_support_force; E is the stored energy of the previous state
compute_support_force(e, E) ==
    LET praise == IF e.intent = "praise" THEN 400 * Max(0, e.valence)
                  ELSE IF e.valence > 3 THEN 200 * e.valence
                  ELSE 0
        apology == IF e.intent = "apology" THEN 1500 ELSE 0
        clarity == 200 * (10 - e.uncertainty)
        trust == 50 * (10 - e.sarcasm_prob) + (IF E > 0 THEN 300 ELSE 0)
    IN  Max(0, Min(10000, praise + apology + clarity + trust))

\* compute_drag_force
compute_drag_force(e) ==
    LET insult == 300 * Max(0, -e.valence)
        sarcasm == 250 * e.sarcasm_prob
        uncertainty == 250 * e.uncertainty
        conflict == IF e.valence < 0 /\ e.dominance > 6
                    THEN 100 * e.dominance ELSE 0
    IN  Max(0, Min(10000, insult + sarcasm + uncertainty + conflict))

\* compute_sensitivity; flags are those of the previous state
compute_sensitivity(e, flags) ==
    LET risk_score ==
            Min(100, (IF flags.anger THEN 30 ELSE 0)
                     + (IF flags.anxiety THEN 20 ELSE 0)
                     + (IF flags.stress THEN 20 ELSE 0)
                     + (IF flags.sarcasm THEN 15 ELSE 0)
                     + (IF flags.crisis THEN 50 ELSE 0))
    IN  Max(5000, Min(25000,
            10000 + 300 * e.arousal + 200 * e.uncertainty + 40 * risk_score))

\* compute_forces with S and K handed to EVCForces in each other's place
compute_forces_misplaced(e, evc) ==
    [S |-> compute_sensitivity(e, evc.flags),
     D |-> compute_drag_force(e),
     K |-> compute_support_force(e, evc.E)]

\* compute_forces that takes the history term of the trust from the bot's
\* energy instead of the user's
compute_forces_bot(e, evc) ==
    [S |-> compute_support_force(e, evc.bot_E),
     D |-> compute_drag_force(e),
     K |-> compute_sensitivity(e, evc.flags)]

\* compute_forces(emotion, evc)
compute_forces(e, evc) ==
    [S |-> compute_support_force(e, evc.E),
     D |-> compute_drag_force(e),
     K |-> compute_sensitivity(e, evc.flags)]

----------------------------------------------------------------------------
(* evc/therapeutic.py is not among the sources.  Its contract: S is raised *)
(* only for a negative previous energy, by an amount that grows with -E,   *)
(* and the result is clamped to [0,1].  The model takes the linear form    *)
(* S + gain * (-E) / 10 with an unknown gain (bias_gain, hundredths).      *)

\* a bias that grows with the size of E, whatever its sign
apply_therapeutic_bias_unsigned(S, E) ==
    Max(0, Min(10000, S + ((bias_gain * Abs(E) + 999) \div 1000)))

\* apply_therapeutic_bias(S, E): S in 1/10000, E the stored previous energy
apply_therapeutic_bias(S, E) ==
    IF E >= 0 THEN S
    ELSE Max(0, Min(10000, S + ((bias_gain * (-E) + 999) \div 1000)))

----------------------------------------------------------------------------
(* evc/rules.py: classification over energies in millionths *)

\* classify_zone with the lowest boundary open (E < -6)
classify_zone_open(E) ==
    IF E < -6000000 THEN "ExtremeNegative"
    ELSE IF E <= -2000000 THEN "Negative"
    ELSE IF E <= 2000000 THEN "Neutral"
    ELSE IF E <= 6000000 THEN "Positive"
    ELSE "OverheatPositive"

\* classify_zone(E)
classify_zone(E) ==
    IF E <= -6000000 THEN "ExtremeNegative"
    ELSE IF E <= -2000000 THEN "Negative"
    ELSE IF E <= 2000000 THEN "Neutral"
    ELSE IF E <= 6000000 THEN "Positive"
    ELSE "OverheatPositive"

\* classify_phase whose CrashRecovery rule tests the Negative threshold -2
\* where the zone rule tests -6
classify_phase_recovery_early(E, delta_E) ==
    IF E <= -2000000 /\ delta_E > 0 THEN "CrashRecovery"
    ELSE IF E > 6000000 /\ delta_E < 0 THEN "Peak"
    ELSE IF delta_E < -500000 THEN "Declining"
    ELSE IF delta_E > 500000 THEN "Rising"
    ELSE "Stable"

\* classify_phase with the delta_E rules tried before the two zone rules
classify_phase_delta_first(E, delta_E) ==
    IF delta_E < -500000 THEN "Declining"
    ELSE IF delta_E > 500000 THEN "Rising"
    ELSE IF E <= -6000000 /\ delta_E > 0 THEN "CrashRecovery"
    ELSE IF E > 6000000 /\ delta_E < 0 THEN "Peak"
    ELSE "Stable"

\* classify_phase(E, delta_E)
classify_phase(E, delta_E) ==
    IF E <= -6000000 /\ delta_E > 0 THEN "CrashRecovery"
    ELSE IF E > 6000000 /\ delta_E < 0 THEN "Peak"
    ELSE IF delta_E < -500000 THEN "Declining"
    ELSE IF delta_E > 500000 THEN "Rising"
    ELSE "Stable"

\* update_flags with the crisis threshold open (E < -6)
update_flags_open(current_flags, e, E) ==
    [sarcasm |-> e.sarcasm_prob > 5,
     anger |-> e.valence < -5 /\ e.arousal > 7 /\ e.dominance > 6,
     anxiety |-> e.valence < -3 /\ e.arousal > 6 /\ e.dominance < 4,
     stress |-> e.arousal > 7 /\ e.support_need > 6,
     crisis |-> E < -6000000,
     boundary_setting |-> e.dominance > 7 /\ e.intent = "aggression",
     mood_swing |-> Abs(e.valence) > 7 /\ e.arousal > 6]

\* update_flags that merges: a flag of current_flags stays set
update_flags_merged(current_flags, e, E) ==
    [sarcasm |-> current_flags.sarcasm \/ e.sarcasm_prob > 5,
     anger |-> current_flags.anger
               \/ (e.valence < -5 /\ e.arousal > 7 /\ e.dominance > 6),
     anxiety |-> current_flags.anxiety
                 \/ (e.valence < -3 /\ e.arousal > 6 /\ e.dominance < 4),
     stress |-> current_flags.stress \/ (e.arousal > 7 /\ e.support_need > 6),
     crisis |-> current_flags.crisis \/ E <= -6000000,
     boundary_setting |-> current_flags.boundary_setting
                          \/ (e.dominance > 7 /\ e.intent = "aggression"),
     mood_swing |-> current_flags.mood_swing
                    \/ (Abs(e.valence) > 7 /\ e.arousal > 6)]

\* update_flags(current_flags, emotion, E): current_flags is not read
update_flags(current_flags, e, E) ==
    [sarcasm |-> e.sarcasm_prob > 5,
     anger |-> e.valence < -5 /\ e.arousal > 7 /\ e.dominance > 6,
     anxiety |-> e.valence < -3 /\ e.arousal > 6 /\ e.dominance < 4,
     stress |-> e.arousal > 7 /\ e.support_need > 6,
     crisis |-> E <= -6000000,
     boundary_setting |-> e.dominance > 7 /\ e.intent = "aggression",
     mood_swing |-> Abs(e.valence) > 7 /\ e.arousal > 6]

\* EmotionalZone, EmotionalPhase
Zones == {"ExtremeNegative", "Negative", "Neutral", "Positive", "OverheatPositive"}
Phases == {"CrashRecovery", "Declining", "Stable", "Rising", "Peak"}

\* the directive texts of get_response_policy, each stood for by its heading
zone_policy ==
    [ExtremeNegative |-> "zone extreme negative: protect",
     Negative |-> "zone negative: empathise",
     Neutral |-> "zone neutral: natural",
     Positive |-> "zone positive: share the joy",
     OverheatPositive |-> "zone overheat: balance"]

phase_policy ==
    [CrashRecovery |-> "phase recovering", Declining |-> "phase declining",
     Rising |-> "phase rising"]

\* " | ".join(policies): the directives with the separator between them
RECURSIVE join(_)
join(policies) ==
    IF Len(policies) <= 1 THEN policies
    ELSE <<Head(policies), " | ">> \o join(Tail(policies))

\* policies.append(text) when the condition holds
append_if(policies, condition, text) ==
    IF condition THEN Append(policies, text) ELSE policies

\* get_response_policy whose zone chain has no branch for the Neutral zone
get_response_policy_no_neutral(zone, phase, flags, e) ==
    LET p1 == append_if(<<>>, flags.crisis, "CRISIS MODE")
        p2 == append_if(p1, flags.sarcasm, "sarcasm detected")
        p3 == append_if(p2, flags.anger, "anger")
        p4 == append_if(p3, flags.anxiety, "anxiety")
        p5 == append_if(p4, zone \in DOMAIN zone_policy \ {"Neutral"},
                        zone_policy[zone])
        p6 == append_if(p5, phase \in DOMAIN phase_policy, phase_policy[phase])
        p7 == append_if(p6, flags.mood_swing, "mood swing")
    IN  join(IF p7 = <<>> THEN <<"natural, friendly">> ELSE p7)

\* get_response_policy with the crisis directive appended after the others
get_response_policy_crisis_last(zone, phase, flags, e) ==
    LET p1 == append_if(<<>>, flags.sarcasm, "sarcasm detected")
        p2 == append_if(p1, flags.anger, "anger")
        p3 == append_if(p2, flags.anxiety, "anxiety")
        p4 == append_if(p3, zone \in DOMAIN zone_policy, zone_policy[zone])
        p5 == append_if(p4, phase \in DOMAIN phase_policy, phase_policy[phase])
        p6 == append_if(p5, flags.mood_swing, "mood swing")
        p7 == append_if(p6, flags.crisis, "CRISIS MODE")
    IN  join(IF p7 = <<>> THEN <<"natural, friendly">> ELSE p7)

\* get_response_policy(zone, phase, flags, emotion): the policy string as the
\* sequence of its directives and separators; emotion is not read
get_response_policy(zone, phase, flags, e) ==
    LET p1 == append_if(<<>>, flags.crisis, "CRISIS MODE")
        p2 == append_if(p1, flags.sarcasm, "sarcasm detected")
        p3 == append_if(p2, flags.anger, "anger")
        p4 == append_if(p3, flags.anxiety, "anxiety")
        p5 == append_if(p4, zone \in DOMAIN zone_policy, zone_policy[zone])
        p6 == append_if(p5, phase \in DOMAIN phase_policy, phase_policy[phase])
        p7 == append_if(p6, flags.mood_swing, "mood swing")
    IN  join(IF p7 = <<>> THEN <<"natural, friendly">> ELSE p7)

----------------------------------------------------------------------------
(* evc/mirroring.py: BotEmotionalState *)

mirror_ratio == 6
lead_rate == 400000
min_pacing == 2
max_lead == 3000000

\* a leading force that already starts on the turn pacing_turns reaches
\* min_pacing
lead_force_early(pacing_turns, E_user) ==
    IF pacing_turns >= min_pacing /\ E_user < 0
    THEN Min(max_lead, lead_rate * (pacing_turns - min_pacing + 1))
    ELSE 0

\* phase 2 of BotEmotionalState.update: the leading force (millionths) for
\* the updated pacing_turns
lead_force(pacing_turns, E_user) ==
    IF pacing_turns >= min_pacing /\ E_user < 0
    THEN Min(max_lead, lead_rate * (pacing_turns - min_pacing))
    ELSE 0

\* BotEmotionalState.update that keeps user_negative_streak on a turn that is
\* not negative
bot_update_streak_kept(bot, E_user) ==
    LET negative == E_user < -500000
        streak == IF negative THEN bot.user_negative_streak + 1
                  ELSE bot.user_negative_streak
        pacing == IF negative THEN bot.pacing_turns + 1
                  ELSE Max(0, bot.pacing_turns - 1)
        mirror_target == IF E_user < 0 THEN RoundDiv(E_user * mirror_ratio, 10)
                         ELSE RoundDiv(E_user * 8, 10)
        target == mirror_target + lead_force(pacing, E_user)
        E_bot == bot.E_bot + RoundDiv(target - bot.E_bot, 2)
    IN  [E_bot |-> Max(-8000000, Min(8000000, E_bot)),
         pacing_turns |-> pacing,
         user_negative_streak |-> streak]

\* BotEmotionalState.update that lowers pacing_turns without the floor at 0
bot_update_unfloored(bot, E_user) ==
    LET negative == E_user < -500000
        streak == IF negative THEN bot.user_negative_streak + 1 ELSE 0
        pacing == IF negative THEN bot.pacing_turns + 1
                  ELSE bot.pacing_turns - 1
        mirror_target == IF E_user < 0 THEN RoundDiv(E_user * mirror_ratio, 10)
                         ELSE RoundDiv(E_user * 8, 10)
        target == mirror_target + lead_force(pacing, E_user)
        E_bot == bot.E_bot + RoundDiv(target - bot.E_bot, 2)
    IN  [E_bot |-> Max(-8000000, Min(8000000, E_bot)),
         pacing_turns |-> pacing,
         user_negative_streak |-> streak]

\* BotEmotionalState.update that resets pacing_turns as soon as the user is
\* no longer negative
bot_update_reset(bot, E_user) ==
    LET negative == E_user < -500000
        streak == IF negative THEN bot.user_negative_streak + 1 ELSE 0
        pacing == IF negative THEN bot.pacing_turns + 1 ELSE 0
        mirror_target == IF E_user < 0 THEN RoundDiv(E_user * mirror_ratio, 10)
                         ELSE RoundDiv(E_user * 8, 10)
        target == mirror_target + lead_force(pacing, E_user)
        E_bot == bot.E_bot + RoundDiv(target - bot.E_bot, 2)
    IN  [E_bot |-> Max(-8000000, Min(8000000, E_bot)),
         pacing_turns |-> pacing,
         user_negative_streak |-> streak]

\* BotEmotionalState.update(E_user); bot holds E_bot (millionths),
\* pacing_turns and user_negative_streak
bot_update(bot, E_user) ==
    LET negative == E_user < -500000
        streak == IF negative THEN bot.user_negative_streak + 1 ELSE 0
        pacing == IF negative THEN bot.pacing_turns + 1
                  ELSE Max(0, bot.pacing_turns - 1)
        mirror_target == IF E_user < 0 THEN RoundDiv(E_user * mirror_ratio, 10)
                         ELSE RoundDiv(E_user * 8, 10)
        target == mirror_target + lead_force(pacing, E_user)
        E_bot == bot.E_bot + RoundDiv(target - bot.E_bot, 2)
    IN  [E_bot |-> Max(-8000000, Min(8000000, E_bot)),
         pacing_turns |-> pacing,
         user_negative_streak |-> streak]

\* get_tone with the boundaries closed on the upper side
get_tone_closed(E_bot) ==
    IF E_bot <= -3000000 THEN "deep_empathy"
    ELSE IF E_bot <= 0 THEN "gentle_support"
    ELSE IF E_bot <= 2000000 THEN "soft_encouragement"
    ELSE "hopeful_lead"

\* BotEmotionalState.get_tone
get_tone(E_bot) ==
    IF E_bot < -3000000 THEN "deep_empathy"
    ELSE IF E_bot < 0 THEN "gentle_support"
    ELSE IF E_bot < 2000000 THEN "soft_encouragement"
    ELSE "hopeful_lead"

\* the instructions table of get_tone_instruction; each text is stood for by
\* its heading
instructions ==
    [deep_empathy |-> "tone: soft, understanding",
     gentle_support |-> "tone: gentle, not judging",
     soft_encouragement |-> "tone: light encouragement",
     hopeful_lead |-> "tone: leading forward"]

\* BotEmotionalState.get_tone_instruction: instructions.get(tone, default)
get_tone_instruction(E_bot) ==
    IF get_tone(E_bot) \in DOMAIN instructions
    THEN instructions[get_tone(E_bot)]
    ELSE instructions["gentle_support"]

----------------------------------------------------------------------------
(* evc/engine.py *)

MAX_DELTA == 3000000
DELTA_HISTORY_SIZE == 5

\* a window that keeps the first n entries, so the newest one is dropped
LastN_oldest(seq, n) ==
    IF Len(seq) > n THEN SubSeq(seq, 1, n) ELSE seq

\* the last n entries of a sequence: delta_history[-DELTA_HISTORY_SIZE:]
LastN(seq, n) ==
    IF Len(seq) > n THEN SubSeq(seq, Len(seq) - n + 1, Len(seq)) ELSE seq

\* a turn counter that is copied, not advanced
turn_kept(current_turn) == current_turn

\* EVCState(turn=current_state.turn + 1)
turn_next(current_turn) == current_turn + 1

\* step 1: HormoneCocktail(), then restore_levels unless the map is empty
restore_cocktail(hormone_levels) ==
    IF DOMAIN hormone_levels # {}
    THEN restore_levels(create_all_hormones, hormone_levels)
    ELSE create_all_hormones

\* E_target_forces with drag and support exchanged
E_target_forces_reversed(K, S_biased, D) ==
    clamp(RoundDiv(K * (D - S_biased), 10), -10000000, 10000000)

\* E_target_forces = clamp(K * (S_biased - D) * 10, -10, 10), millionths
E_target_forces(K, S_biased, D) ==
    clamp(RoundDiv(K * (S_biased - D), 10), -10000000, 10000000)

\* a blend that adds the two energies without their weights
E_blended_unweighted(E_hormonal, E_forces) == E_hormonal + E_forces

\* E_blended = 0.7 * E_hormonal + 0.3 * E_target_forces
E_blended(E_hormonal, E_forces) == RoundDiv(7 * E_hormonal + 3 * E_forces, 10)

\* the rate limiter left out: delta_E = delta_E_raw
delta_E_unlimited(delta_E_raw) == delta_E_raw

\* delta_E = clamp(delta_E_raw, -MAX_DELTA, MAX_DELTA)
delta_E(delta_E_raw) == clamp(delta_E_raw, -MAX_DELTA, MAX_DELTA)

\* a step damped by the inertia I = 0.3 of the state: only 70% of delta_E
\* is applied
E_next_inertial(E_prev, delta) ==
    clamp(E_prev + RoundDiv(7 * delta, 10), -10000000, 10000000)

\* E_next = clamp(E_prev + delta_E, -10, 10)
E_next(E_prev, delta) == clamp(E_prev + delta, -10000000, 10000000)

\* update_evc that lets the stored E fade by a tenth when wall-clock time has
\* passed since the timestamp of current_state
update_evc_elapsed(current_state, e, current_time) ==
    LET E_prev == IF current_time > current_state.timestamp
                  THEN RoundDiv(9 * current_state.E, 10)
                  ELSE current_state.E
        hormones == cocktail_update(
                        restore_cocktail(current_state.hormone_levels), e)
        E_hormonal == compute_E(hormones)
        f == compute_forces(e, current_state)
        S_biased == apply_therapeutic_bias(f.S, E_prev)
        blended == E_blended(E_hormonal, E_target_forces(f.K, S_biased, f.D))
        delta == delta_E(blended - ToMicro(E_prev))
        next == E_next(ToMicro(E_prev), delta)
        bot == bot_update([E_bot |-> ToMicro(current_state.bot_E),
                           pacing_turns |-> current_state.bot_pacing_turns,
                           user_negative_streak |->
                               current_state.bot_negative_streak],
                          next)
    IN  [state |->
            [E |-> Round4(next),
             E_prev |-> E_prev,
             delta_E |-> Round4(delta),
             E_target |-> Round4(blended),
             zone |-> classify_zone(next),
             phase |-> classify_phase(next, delta),
             flags |-> update_flags(current_state.flags, e, next),
             turn |-> turn_next(current_state.turn),
             timestamp |-> current_time,
             delta_history |->
                 LastN(Append(current_state.delta_history, Round4(delta)),
                       DELTA_HISTORY_SIZE),
             hormone_levels |-> serialize_levels(hormones),
             bot_E |-> Round4(bot.E_bot),
             bot_pacing_turns |-> bot.pacing_turns,
             bot_negative_streak |-> bot.user_negative_streak,
             dominant_state |-> get_dominant_state(hormones)],
         forces |-> [S |-> S_biased, D |-> f.D, K |-> f.K]]

\* update_evc(current_state, emotion, current_time): the new EVCState and the
\* biased forces.  Energies are millionths inside; the fields of the new state
\* hold them rounded to four decimals.
update_evc(current_state, e, current_time) ==
    LET E_prev == current_state.E
        hormones == cocktail_update(
                        restore_cocktail(current_state.hormone_levels), e)
        E_hormonal == compute_E(hormones)
        f == compute_forces(e, current_state)
        S_biased == apply_therapeutic_bias(f.S, E_prev)
        blended == E_blended(E_hormonal, E_target_forces(f.K, S_biased, f.D))
        delta == delta_E(blended - ToMicro(E_prev))
        next == E_next(ToMicro(E_prev), delta)
        bot == bot_update([E_bot |-> ToMicro(current_state.bot_E),
                           pacing_turns |-> current_state.bot_pacing_turns,
                           user_negative_streak |->
                               current_state.bot_negative_streak],
                          next)
    IN  [state |->
            [E |-> Round4(next),
             E_prev |-> E_prev,
             delta_E |-> Round4(delta),
             E_target |-> Round4(blended),
             zone |-> classify_zone(next),
             phase |-> classify_phase(next, delta),
             flags |-> update_flags(current_state.flags, e, next),
             turn |-> turn_next(current_state.turn),
             timestamp |-> current_time,
             delta_history |->
                 LastN(Append(current_state.delta_history, Round4(delta)),
                       DELTA_HISTORY_SIZE),
             hormone_levels |-> serialize_levels(hormones),
             bot_E |-> Round4(bot.E_bot),
             bot_pacing_turns |-> bot.pacing_turns,
             bot_negative_streak |-> bot.user_negative_streak,
             dominant_state |-> get_dominant_state(hormones)],
         forces |-> [S |-> S_biased, D |-> f.D, K |-> f.K]]

\* delta_history = current_state.delta_history without the copy: the append
\* goes to the list of current_state itself
argument_history_shared(delta_history, delta) == Append(delta_history, delta)

\* delta_history = list(current_state.delta_history): the append and the slice
\* act on a copy, the list held by current_state keeps its entries
argument_history(delta_history, delta) == delta_history

\* the object passed as current_state as update_evc leaves it: its fields are
\* read and never assigned, the cocktail and the bot state are fresh objects
\* filled from its values, update_flags builds new flags, and delta_history
\* is the one container of it that the code copies before writing
current_state_after(current_state, e, current_time) ==
    [current_state EXCEPT
        !.delta_history =
            argument_history(
                @, update_evc(current_state, e, current_time).state.delta_E)]

\* create_initial_state that leaves hormone_levels at the default of the
\* EVCState field, the empty map
create_initial_state_no_levels(now) ==
    [E |-> 0,
     E_prev |-> 0,
     delta_E |-> 0,
     E_target |-> 0,
     zone |-> "Neutral",
     phase |-> "Stable",
     flags |-> NoFlags,
     turn |-> 0,
     timestamp |-> now,
     delta_history |-> <<>>,
     hormone_levels |-> <<>>,
     bot_E |-> 0,
     bot_pacing_turns |-> 0,
     bot_negative_streak |-> 0,
     dominant_state |-> "neutral"]

\* create_initial_state(); `now` is the reading of datetime.now()
create_initial_state(now) ==
    [E |-> 0,
     E_prev |-> 0,
     delta_E |-> 0,
     E_target |-> 0,
     zone |-> "Neutral",
     phase |-> "Stable",
     flags |-> NoFlags,
     turn |-> 0,
     timestamp |-> now,
     delta_history |-> <<>>,
     hormone_levels |-> serialize_levels(create_all_hormones),
     bot_E |-> 0,
     bot_pacing_turns |-> 0,
     bot_negative_streak |-> 0,
     dominant_state |-> "neutral"]

\* get_bot_tone_instruction(state): only bot_E and bot_pacing_turns are copied
get_bot_tone_instruction(st) == get_tone_instruction(ToMicro(st.bot_E))

\* get_bot_tone(state): only bot_E is copied into the controller
get_bot_tone(st) == get_tone(ToMicro(st.bot_E))

----------------------------------------------------------------------------
(* Inputs of the model *)

\* readings of the wall clock
Times == {0}

\* candidate coefficients of the therapeutic bias (hundredths)
BiasGains == {5, 30}

\* tests/test_evc_engine.py test_crisis_detection and section 8 of the spec
ExtremeNegativeEmotion ==
    [DefaultEmotion EXCEPT !.valence = -10, !.arousal = 10, !.support_need = 10]

\* test_negative_emotion_decreases_E
NegativeEmotion == [DefaultEmotion EXCEPT !.valence = -8, !.arousal = 7]

\* test_positive_emotion_increases_E
PraiseEmotion == [DefaultEmotion EXCEPT !.valence = 8, !.intent = "praise"]

\* a calm, certain, grateful message
CalmPraiseEmotion ==
    [DefaultEmotion EXCEPT !.valence = 10, !.arousal = 0, !.intent = "praise",
                           !.support_need = 0, !.uncertainty = 0]

\* an angry, sarcastic message
AngryEmotion ==
    [DefaultEmotion EXCEPT !.valence = -8, !.arousal = 8, !.dominance = 8,
                           !.intent = "aggression", !.sarcasm_prob = 8,
                           !.uncertainty = 10]

Emotions ==
    {DefaultEmotion, ExtremeNegativeEmotion, NegativeEmotion, PraiseEmotion,
     CalmPraiseEmotion, AngryEmotion}

\* turns of one session
MaxTurn == 4

\* energies set on a fresh state as the tests do, model_copy(update={"E": x}):
\* those of the tests, and values down to and up to the bounds of the field
PresetEnergies == {-100000, -90000, -80000, 50000, 80000, 100000}

\* turns applied to a preset state
MaxPresetTurn == 2

\* turns of the repeated extreme negative input
MaxCrisisTurn == 60

----------------------------------------------------------------------------
(* services/memory_store.py: InMemoryStore *)

Users == {"A", "B"}

\* the request tasks the event loop runs at the same time
Tasks == {1, 2}

\* messages a request can carry, named by the emotion extracted from them
SvcEmotions == {NegativeEmotion, PraiseEmotion}

\* requests accepted by the service
MaxRequests == 2

\* add_message keeps the last 50 messages
MESSAGE_LIMIT == 50

\* user_id not in _users, or no "evc_state" under it
NoState == [absent |-> TRUE]

\* InMemoryStore.__init__: no user, no conversation
EmptyUsers == [u \in Users |-> NoState]
EmptyConversations == [u \in Users |-> <<>>]

\* InMemoryStore.get_evc_state
get_evc_state(users, user_id, now) ==
    IF users[user_id] # NoState THEN users[user_id]
    ELSE create_initial_state(now)

\* save_evc_state that refuses to go back: a state not newer than the stored
\* one is stored with the next turn number
save_evc_state_versioned(users, user_id, st) ==
    [users EXCEPT ![user_id] =
        IF users[user_id] # NoState /\ users[user_id].turn >= st.turn
        THEN [st EXCEPT !.turn = users[user_id].turn + 1]
        ELSE st]

\* save_evc_state that ignores the key: one state for every user
save_evc_state_unkeyed(users, user_id, st) == [u \in Users |-> st]

\* save_evc_state that merges into the stored entry: the stored hormone
\* snapshot is kept
save_evc_state_merged(users, user_id, st) ==
    [users EXCEPT ![user_id] =
        IF users[user_id] # NoState
        THEN [st EXCEPT !.hormone_levels = users[user_id].hormone_levels]
        ELSE st]

\* InMemoryStore.save_evc_state
save_evc_state(users, user_id, st) == [users EXCEPT ![user_id] = st]

\* InMemoryStore.add_message
add_message(convs, user_id, message) ==
    [convs EXCEPT ![user_id] = LastN(Append(convs[user_id], message),
                                     MESSAGE_LIMIT)]

----------------------------------------------------------------------------
(* api/routes/evc_routes.py: the handlers, cut at their suspension points *)

\* a task slot that runs no handler; `request` numbers the accepted requests
IdleTask ==
    [request |-> 0, op |-> "none", pc |-> "idle", user_id |-> "none",
     current_state |-> NoState, emotion |-> DefaultEmotion,
     new_state |-> NoState]

----------------------------------------------------------------------------
(* The engine session: one conversation, update_evc applied turn by turn *)

ServiceIdle ==
    /\ store = EmptyUsers
    /\ conversations = EmptyConversations
    /\ tasks = [t \in Tasks |-> IdleTask]
    /\ requests = 0

ServiceUnchanged == UNCHANGED <<store, conversations, tasks, requests>>

\* a new session: state = create_initial_state()
Init ==
    /\ bias_gain \in BiasGains
    /\ \E now \in Times : state = create_initial_state(now)
    /\ forces = NoForces
    /\ emotion = DefaultEmotion
    /\ ServiceIdle
    /\ returned = NoReturn

\* one turn: state, forces = update_evc(state, emotion, now)
UpdateEvc(e, now) ==
    /\ LET result == update_evc(state, e, now)
       IN  state' = result.state /\ forces' = result.forces
    /\ emotion' = e
    /\ UNCHANGED <<bias_gain, returned>>
    /\ ServiceUnchanged

Next ==
    \E e \in Emotions, now \in Times :
        /\ state.turn < MaxTurn
        /\ UpdateEvc(e, now)

Spec == Init /\ [][Next]_vars

\* a session that starts from a fresh state with E set by hand, as
\* test_no_bipolar_jumps and test_neutral_emotion_drifts_toward_zero do
InitPreset ==
    /\ bias_gain \in BiasGains
    /\ \E now \in Times, E \in PresetEnergies :
           state = [create_initial_state(now) EXCEPT !.E = E]
    /\ forces = NoForces
    /\ emotion = DefaultEmotion
    /\ ServiceIdle
    /\ returned = NoReturn

NextPreset ==
    \E e \in Emotions, now \in Times :
        /\ state.turn < MaxPresetTurn
        /\ UpdateEvc(e, now)

SpecPreset == InitPreset /\ [][NextPreset]_vars

\* test_crisis_detection: the extreme negative input on every turn; the loop
\* always gets to run its next turn
NextCrisis ==
    \E now \in Times :
        /\ state.turn < MaxCrisisTurn
        /\ UpdateEvc(ExtremeNegativeEmotion, now)

SpecCrisis == Init /\ [][NextCrisis]_vars /\ WF_vars(NextCrisis)

\* hormone_levels maps a stored EVCState can carry (dict[str, float]): empty,
\* partial, with a key that names no hormone, with only such a key, complete
StoredLevels ==
    {[n \in {} |-> 0],
     [cortisol |-> 80000, gaba |-> 0],
     [cortisol |-> 80000, melatonin |-> 50000],
     [melatonin |-> 50000],
     [n \in Hormones |-> 40000]}

\* a session that starts from a state whose hormone_levels map was stored by
\* hand
InitRestore ==
    /\ bias_gain \in BiasGains
    /\ \E now \in Times, levels \in StoredLevels :
           state = [create_initial_state(now) EXCEPT !.hormone_levels = levels]
    /\ forces = NoForces
    /\ emotion = DefaultEmotion
    /\ ServiceIdle
    /\ returned = NoReturn

SpecRestore == InitRestore /\ [][NextPreset]_vars

\* a longer conversation that alternates between distress and calm praise,
\* so that the user's energy falls, recovers and falls again
PacingEmotions == {ExtremeNegativeEmotion, CalmPraiseEmotion}

MaxPacingTurn == 7

NextPacing ==
    \E e \in PacingEmotions, now \in Times :
        /\ state.turn < MaxPacingTurn
        /\ UpdateEvc(e, now)

SpecPacing == Init /\ [][NextPacing]_vars

----------------------------------------------------------------------------
(* The classification rules called on their own, as TestZonePhase does *)

\* energies given to classify_zone and classify_phase (1/10000): the ends of
\* the range, each boundary with its two neighbours, and values in between
RuleEnergies ==
    {-100000, -70000, -60001, -60000, -59999, -40000, -20001, -20000, -19999,
     0, 19999, 20000, 20001, 40000, 59999, 60000, 60001, 70000, 100000}

\* changes of energy given to classify_phase (1/10000)
RuleDeltas == {-30000, -10000, -5001, -5000, -1, 0, 1, 5000, 5001, 10000, 30000}

\* a state that carries the arguments, not yet classified
InitRules ==
    /\ bias_gain \in BiasGains
    /\ \E now \in Times, E \in RuleEnergies, d \in RuleDeltas :
           state = [create_initial_state(now) EXCEPT !.E = E, !.delta_E = d]
    /\ forces = NoForces
    /\ emotion = DefaultEmotion
    /\ ServiceIdle
    /\ returned = NoReturn

\* zone = classify_zone(E); phase = classify_phase(E, delta_E)
Classify ==
    /\ state' = [state EXCEPT
                    !.zone = classify_zone(ToMicro(state.E)),
                    !.phase = classify_phase(ToMicro(state.E),
                                             ToMicro(state.delta_E))]
    /\ UNCHANGED <<forces, emotion, bias_gain, returned>>
    /\ ServiceUnchanged

NextRules == Classify

SpecRules == InitRules /\ [][NextRules]_vars

----------------------------------------------------------------------------
(* Functions called on their own, outside a turn, on chosen arguments *)

CallsUnchanged ==
    /\ UNCHANGED <<state, forces, emotion, bias_gain>>
    /\ ServiceUnchanged

\* stored bot_E values (1/10000): the ends of the range and each tone
\* boundary with its two neighbours
BotEnergies ==
    {-80000, -30001, -30000, -29999, -1, 0, 1, 19999, 20000, 20001, 80000}

\* stored values of the two pacing counters
BotCounters == {0, 1, 3}

\* get_bot_tone(state) on a state with the given bot fields
CallGetBotTone(bot_E, pacing, streak) ==
    /\ returned' =
           [fn |-> "get_bot_tone", args |-> <<bot_E, pacing, streak>>,
            value |-> get_bot_tone([state EXCEPT !.bot_E = bot_E,
                                       !.bot_pacing_turns = pacing,
                                       !.bot_negative_streak = streak])]
    /\ CallsUnchanged

\* get_bot_tone_instruction(state) on a state with the given bot fields
CallGetBotToneInstruction(bot_E, pacing, streak) ==
    /\ returned' =
           [fn |-> "get_bot_tone_instruction",
            args |-> <<bot_E, pacing, streak>>,
            value |-> get_bot_tone_instruction(
                          [state EXCEPT !.bot_E = bot_E,
                              !.bot_pacing_turns = pacing,
                              !.bot_negative_streak = streak])]
    /\ CallsUnchanged

\* levels a hormone is decayed from: the ends of [0, 10], the baseline, one
\* and ten grid steps on either side of it, and 3.0 above it
DecayLevels(name) ==
    {0, LevelMax} \cup {baseline[name] + d : d \in {-10, -1, 0, 1, 10, 30000}}

MaxDecaySteps == 6

\* hormone.decay() on a hormone set to the given level, with no production
CallDecay(name, level) ==
    /\ returned = NoReturn
    /\ returned' = [fn |-> "decay", args |-> <<name, level, 1>>,
                    value |-> decay(name, level)]
    /\ CallsUnchanged

\* hormone.decay() once more on the same hormone
CallDecayAgain ==
    /\ returned.fn = "decay"
    /\ returned.args[3] < MaxDecaySteps
    /\ returned' = [fn |-> "decay",
                    args |-> <<returned.args[1], returned.value,
                               returned.args[3] + 1>>,
                    value |-> decay(returned.args[1], returned.value)]
    /\ CallsUnchanged

\* cocktails the update is called on (1/10000): at rest, every hormone at
\* 4.0, and a stressed one
CocktailLevels ==
    {create_all_hormones,
     [n \in Hormones |-> 40000],
     [create_all_hormones EXCEPT !.cortisol = 80000, !.adrenaline = 90000,
                                 !.serotonin = 5000]}

\* orders in which the 8 targets can be processed: HORMONE_ORDER, its
\* reverse, and a shuffle
TargetOrders ==
    {<<1, 2, 3, 4, 5, 6, 7, 8>>, <<8, 7, 6, 5, 4, 3, 2, 1>>,
     <<3, 5, 1, 8, 2, 7, 4, 6>>}

\* cocktail.update(emotion) on a cocktail with the given levels
CallCocktailUpdate(levels, e) ==
    /\ returned = NoReturn
    /\ returned' = [fn |-> "cocktail_update", args |-> <<levels, e>>,
                    value |-> cocktail_update(levels, e)]
    /\ CallsUnchanged

\* the interaction step on the levels produced for the given emotion, its
\* targets taken in the given order
CallApplyInteractions(levels, e, order) ==
    /\ returned = NoReturn
    /\ returned' =
           [fn |-> "apply_interactions", args |-> <<levels, e, order>>,
            value |-> apply_interactions_loop(Production(levels, e),
                                              Production(levels, e), order, 8)]
    /\ CallsUnchanged

\* amounts above the baseline (1/10000): just under the 0.5 threshold, on
\* it, and well above it
DominantOffsets == {4999, 5000, 20000}

\* cocktail.get_dominant_state() on a cocktail at its baselines except that
\* hormones n and m are raised by the same amount
CallGetDominantState(n, m, d) ==
    /\ returned = NoReturn
    /\ LET levels == [h \in Hormones |->
                         IF h \in {n, m} THEN baseline[h] + d ELSE baseline[h]]
       IN  returned' = [fn |-> "get_dominant_state", args |-> <<levels, n, m>>,
                        value |-> get_dominant_state(levels)]
    /\ CallsUnchanged

\* cocktail.get_dominant_state() on a cocktail whose levels are all lowered
\* by the same amount, the baselines included
CallGetDominantStateLow(d) ==
    /\ returned = NoReturn
    /\ LET levels == [h \in Hormones |-> Max(0, baseline[h] - d)]
       IN  returned' = [fn |-> "get_dominant_state",
                        args |-> <<levels, "none", "none">>,
                        value |-> get_dominant_state(levels)]
    /\ CallsUnchanged

\* flag settings given to get_response_policy: every combination of the five
\* flags it reads, the two it does not read being set or not
PolicyFlags ==
    {[sarcasm |-> s, anger |-> a, anxiety |-> x, stress |-> o, crisis |-> c,
      boundary_setting |-> o, mood_swing |-> m] :
         s \in BOOLEAN, a \in BOOLEAN, x \in BOOLEAN, c \in BOOLEAN,
         m \in BOOLEAN, o \in BOOLEAN}

\* get_response_policy(zone, phase, flags, emotion)
CallGetResponsePolicy(zone, phase, flags, e) ==
    /\ returned = NoReturn
    /\ returned' = [fn |-> "get_response_policy",
                    args |-> <<zone, phase, flags, e>>,
                    value |-> get_response_policy(zone, phase, flags, e)]
    /\ CallsUnchanged

\* range-valid emotions given to compute_forces (tenths): the ends of every
\* range, the thresholds the forces branch on, and the intents they read
ForceEmotions ==
    [valence : {-10, -6, 0, 4, 10}, arousal : {0, 5, 10},
     dominance : {0, 7, 10},
     intent : {"praise", "apology", "aggression", "neutral"},
     sarcasm_prob : {0, 10}, support_need : {5}, uncertainty : {0, 10}]

\* every flag set
AllFlags ==
    [sarcasm |-> TRUE, anger |-> TRUE, anxiety |-> TRUE, stress |-> TRUE,
     crisis |-> TRUE, boundary_setting |-> TRUE, mood_swing |-> TRUE]

\* compute_forces(emotion, evc) on a state with the given E and flags
CallComputeForces(e, E, flags) ==
    /\ returned = NoReturn
    /\ returned' = [fn |-> "compute_forces", args |-> <<e, E, flags>>,
                    value |-> compute_forces(e, [state EXCEPT !.E = E,
                                                    !.flags = flags])]
    /\ CallsUnchanged

\* update_evc(current_state, emotion) on a fresh state with E and the bot
\* fields set by hand; the state itself is not replaced
CallUpdateEvc(E, bot_E, pacing, streak, e, now) ==
    /\ returned = NoReturn
    /\ returned' =
           [fn |-> "update_evc", args |-> <<E, bot_E, pacing, streak, e>>,
            value |-> update_evc([state EXCEPT !.E = E, !.bot_E = bot_E,
                                     !.bot_pacing_turns = pacing,
                                     !.bot_negative_streak = streak],
                                 e, now)]
    /\ CallsUnchanged

\* support forces (1/10000) and previous energies (1/10000) given to
\* apply_therapeutic_bias, those of TestTherapeuticBias among them
BiasSupports == {0, 3000, 9999, 10000}
BiasEnergies == {-100000, -80000, -50000, -20000, -1, 0, 30000}

\* apply_therapeutic_bias(S, E) for two energies, E_lower <= E_upper, as
\* test_more_negative_stronger_bias calls it
CallApplyTherapeuticBias(S, E_lower, E_upper) ==
    /\ returned = NoReturn
    /\ E_lower <= E_upper
    /\ returned' = [fn |-> "apply_therapeutic_bias",
                    args |-> <<S, E_lower, E_upper>>,
                    value |-> [lower |-> apply_therapeutic_bias(S, E_lower),
                               upper |-> apply_therapeutic_bias(S, E_upper)]]
    /\ CallsUnchanged

\* settings of the three bot fields of a stored state
BotSettings ==
    {[bot_E |-> 0, bot_pacing_turns |-> 0, bot_negative_streak |-> 0],
     [bot_E |-> -30000, bot_pacing_turns |-> 3, bot_negative_streak |-> 3],
     [bot_E |-> 50000, bot_pacing_turns |-> 1, bot_negative_streak |-> 0]}

\* update_evc on two states that differ in nothing but their bot fields,
\* with the same emotion
CallUpdateEvcTwice(E, bot1, bot2, e, now) ==
    /\ returned = NoReturn
    /\ LET with(bot) == [state EXCEPT !.E = E, !.bot_E = bot.bot_E,
                            !.bot_pacing_turns = bot.bot_pacing_turns,
                            !.bot_negative_streak = bot.bot_negative_streak]
       IN  returned' =
               [fn |-> "update_evc twice", args |-> <<E, bot1, bot2, e>>,
                value |-> [first |-> update_evc(with(bot1), e, now).state,
                           second |-> update_evc(with(bot2), e, now).state]]
    /\ CallsUnchanged

\* values of the clock: timestamps of stored states and current_time arguments
ClockTimes == {0, 1, 2}

\* update_evc at two values of current_time, on two states that differ in
\* nothing but their timestamp, with the same emotion
CallUpdateEvcAtTimes(E, stamp1, stamp2, e, time1, time2) ==
    /\ returned = NoReturn
    /\ LET stored(stamp) == [state EXCEPT !.E = E, !.timestamp = stamp]
       IN  returned' =
               [fn |-> "update_evc at two times",
                args |-> <<E, stamp1, stamp2, e, time1, time2>>,
                value |-> [first |-> update_evc(stored(stamp1), e, time1),
                           second |-> update_evc(stored(stamp2), e, time2)]]
    /\ CallsUnchanged

\* a state is loaded once and update_evc is called on that object with one
\* emotion and then with another; `alone` is the second call on a state that
\* no call has touched
CallUpdateEvcOnLoaded(E, history, e1, e2, now) ==
    /\ returned = NoReturn
    /\ LET loaded == [state EXCEPT !.E = E, !.delta_history = history]
           after == current_state_after(loaded, e1, now)
       IN  returned' =
               [fn |-> "update_evc on a loaded state",
                args |-> <<loaded, e1, e2>>,
                value |-> [first |-> update_evc(loaded, e1, now).state,
                           after |-> after,
                           second |-> update_evc(after, e2, now).state,
                           alone |-> update_evc(loaded, e2, now).state]]
    /\ CallsUnchanged

\* one function is observed per behaviour
NextCalls ==
    \/ /\ returned = NoReturn
       /\ \/ \E bot_E \in BotEnergies, pacing \in BotCounters,
                 streak \in BotCounters :
                  CallGetBotTone(bot_E, pacing, streak)
          \/ \E bot_E \in BotEnergies, pacing \in BotCounters,
                 streak \in BotCounters :
                  CallGetBotToneInstruction(bot_E, pacing, streak)
    \/ \E name \in Hormones : \E level \in DecayLevels(name) :
           CallDecay(name, level)
    \/ CallDecayAgain
    \/ \E n \in Hormones, m \in Hormones, d \in DominantOffsets :
           CallGetDominantState(n, m, d)
    \/ \E d \in {0} \cup DominantOffsets : CallGetDominantStateLow(d)
    \/ \E zone \in Zones, phase \in Phases, flags \in PolicyFlags :
           CallGetResponsePolicy(zone, phase, flags, DefaultEmotion)
    \/ \E e \in ForceEmotions, E \in {-50000, 0, 50000},
          flags \in {NoFlags, AllFlags} :
           CallComputeForces(e, E, flags)
    \/ \E E \in PresetEnergies, bot_E \in {-30000, 0}, pacing \in {0, 3},
          e \in Emotions, now \in Times :
           CallUpdateEvc(E, bot_E, pacing, pacing, e, now)
    \/ \E S \in BiasSupports, E_lower \in BiasEnergies, E_upper \in BiasEnergies :
           CallApplyTherapeuticBias(S, E_lower, E_upper)
    \/ \E E \in PresetEnergies, bot1 \in BotSettings, bot2 \in BotSettings,
          e \in Emotions, now \in Times :
           CallUpdateEvcTwice(E, bot1, bot2, e, now)
    \/ \E E \in {-80000, 0, 50000}, e \in Emotions, stamp1 \in ClockTimes,
          stamp2 \in ClockTimes, time1 \in ClockTimes, time2 \in ClockTimes :
           CallUpdateEvcAtTimes(E, stamp1, stamp2, e, time1, time2)
    \/ \E E \in {-80000, 0, 50000}, history \in {<<>>, <<-30000, 1200>>},
          e1 \in Emotions, e2 \in Emotions, now \in Times :
           CallUpdateEvcOnLoaded(E, history, e1, e2, now)
    \/ \E levels \in CocktailLevels, e \in Emotions : CallCocktailUpdate(levels, e)
    \/ \E levels \in CocktailLevels, e \in Emotions, order \in TargetOrders :
           CallApplyInteractions(levels, e, order)

SpecCalls == Init /\ [][NextCalls]_vars

----------------------------------------------------------------------------
(* The service: process_message and reset_state calls on one event loop *)

EngineUnchanged == UNCHANGED <<state, forces, emotion, bias_gain, returned>>

\* process_message up to `await extract_emotion`: the state is loaded
ProcessLoad(t, u, now) ==
    /\ requests < MaxRequests
    /\ tasks[t].pc \in {"idle", "done"}
    /\ tasks' = [tasks EXCEPT ![t] =
                    [request |-> requests + 1, op |-> "process",
                     pc |-> "extracting", user_id |-> u,
                     current_state |-> get_evc_state(store, u, now),
                     emotion |-> DefaultEmotion, new_state |-> NoState]]
    /\ requests' = requests + 1
    /\ UNCHANGED <<store, conversations>>
    /\ EngineUnchanged

\* from the extracted emotion to `await llm_client.generate_response`:
\* update_evc on the state loaded before
ProcessUpdate(t, e, now) ==
    /\ tasks[t].pc = "extracting"
    /\ tasks' = [tasks EXCEPT ![t].pc = "generating",
                              ![t].emotion = e,
                              ![t].new_state =
                                  update_evc(tasks[t].current_state, e, now).state]
    /\ UNCHANGED <<store, conversations, requests>>
    /\ EngineUnchanged

\* from the generated reply to the return: save_evc_state, add_message
ProcessSave(t) ==
    /\ tasks[t].pc = "generating"
    /\ store' = save_evc_state(store, tasks[t].user_id, tasks[t].new_state)
    /\ conversations' =
           add_message(conversations, tasks[t].user_id,
                       [user_text |-> tasks[t].emotion,
                        E |-> tasks[t].new_state.E,
                        zone |-> tasks[t].new_state.zone])
    /\ tasks' = [tasks EXCEPT ![t].pc = "done"]
    /\ UNCHANGED requests
    /\ EngineUnchanged

\* reset_state: it has no suspension point
ResetState(t, u, now) ==
    /\ requests < MaxRequests
    /\ tasks[t].pc \in {"idle", "done"}
    /\ store' = save_evc_state(store, u, create_initial_state(now))
    /\ tasks' = [tasks EXCEPT ![t] =
                    [IdleTask EXCEPT !.request = requests + 1, !.op = "reset",
                                     !.pc = "done", !.user_id = u]]
    /\ requests' = requests + 1
    /\ UNCHANGED conversations
    /\ EngineUnchanged

NextSvc ==
    \E t \in Tasks, now \in Times :
        \/ \E u \in Users : ProcessLoad(t, u, now)
        \/ \E e \in SvcEmotions : ProcessUpdate(t, e, now)
        \/ ProcessSave(t)
        \/ \E u \in Users : ResetState(t, u, now)

SpecSvc == Init /\ [][NextSvc]_vars

----------------------------------------------------------------------------
(* Claims about the engine *)

\* C1: in every state reachable from create_initial_state by update_evc the
\* emotional energy E lies in [-10, 10].
C1_EnergyBounded == state.E >= -100000 /\ state.E <= 100000

\* an update whose force target K * (S - D) * 10 fell below -10 and was clamped
C1_Witness ==
    /\ state.turn >= 1
    /\ forces.K * (forces.S - forces.D) < -100000000
    /\ state.E >= -100000 /\ state.E <= 100000

\* C2: every update of a state whose E is in [-10, 10] returns a state with
\* |delta_E| <= 3 and |E_new - E_old| <= 3.
C2_RateLimited ==
    [][state'.turn = state.turn + 1 =>
          /\ Abs(state'.delta_E) <= 30000
          /\ Abs(state'.E - state.E) <= 30000]_vars

\* an update from E = 8 that the limiter cut to exactly -3
C2_Witness ==
    /\ state.turn = 1
    /\ state.E_prev = 80000
    /\ state.delta_E = -30000
    /\ state.E_target < 50000

LevelsInRange(levels) == \A n \in Hormones : levels[n] >= 0 /\ levels[n] <= LevelMax

\* C3: each of the 8 hormone levels is in [0, 10] in the stored snapshot and
\* after the production, the interaction and the decay phase of the next update.
C3_LevelsBounded ==
    /\ LevelsInRange(state.hormone_levels)
    /\ \A e \in Emotions :
         \A produced \in {Production(restore_cocktail(state.hormone_levels), e)} :
            \A interacted \in {apply_interactions(produced)} :
               /\ LevelsInRange(produced)
               /\ LevelsInRange(interacted)
               /\ LevelsInRange(Decay(interacted))

\* a session whose next production stops a hormone at the cap of 10
C3_Witness ==
    /\ state.turn >= 1
    /\ \E e \in Emotions, n \in Hormones :
          /\ state.hormone_levels[n] < LevelMax
          /\ Production(restore_cocktail(state.hormone_levels), e)[n] = LevelMax

\* C4: in every state returned by update_evc, flags.crisis is true exactly
\* when E <= -6, and exactly when the zone is ExtremeNegative.
C4_CrisisIffExtreme ==
    state.turn >= 1 =>
        /\ state.flags.crisis = (state.E <= -60000)
        /\ (state.zone = "ExtremeNegative") = (state.E <= -60000)

\* an update that ends exactly on the boundary E = -6 with the crisis flag set
C4_Witness ==
    /\ state.turn >= 1
    /\ state.E = -60000
    /\ state.flags.crisis
    /\ state.zone = "ExtremeNegative"

\* C5: from the initial state, the extreme negative input repeated on every
\* turn eventually reaches a state with flags.crisis set.
C5_EventuallyCrisis == <>(state.flags.crisis)

\* C6: from the initial state, the input {valence -0.8, arousal 0.7} yields
\* E_next < 0.
C6_NegativeInputLowersE ==
    (state.turn = 1 /\ emotion = NegativeEmotion) => state.E < 0

\* C7: from the initial state, the input {valence 0.8, intent praise} yields
\* E_next > 0 and turn = 1.
C7_PraiseRaisesE ==
    [][(state.turn = 0 /\ emotion' = PraiseEmotion) =>
          (state'.E > 0 /\ state'.turn = 1)]_vars

\* the first turn of a session was the praise input
C7_Witness ==
    /\ state.turn = 1
    /\ state.E_prev = 0
    /\ emotion = PraiseEmotion
    /\ state.E > 0

\* C12: create_initial_state() returns E = E_prev = E_target = delta_E = 0,
\* zone Neutral, phase Stable, turn 0, an empty delta_history, the 8 hormones
\* at their constructed baselines, the bot at rest, every flag false and
\* dominant_state "neutral".
C12_InitialState ==
    state.turn = 0 =>
        /\ state.E = 0 /\ state.E_prev = 0 /\ state.E_target = 0
        /\ state.delta_E = 0
        /\ state.zone = "Neutral" /\ state.phase = "Stable"
        /\ state.delta_history = <<>>
        /\ state.hormone_levels =
               [serotonin |-> 30000, dopamine |-> 20000, cortisol |-> 10000,
                oxytocin |-> 10000, adrenaline |-> 5000, endorphin |-> 15000,
                gaba |-> 20000, norepinephrine |-> 15000]
        /\ state.bot_E = 0 /\ state.bot_pacing_turns = 0
        /\ state.bot_negative_streak = 0
        /\ \A f \in DOMAIN state.flags : ~state.flags[f]
        /\ DOMAIN state.flags = {"sarcasm", "anger", "anxiety", "stress",
                                 "crisis", "boundary_setting", "mood_swing"}
        /\ state.dominant_state = "neutral"

\* the state a session starts from, before any update
C12_Witness ==
    /\ state.turn = 0
    /\ state.E = 0
    /\ state.hormone_levels.serotonin = 30000
    /\ state.dominant_state = "neutral"
    /\ forces = NoForces

\* C13: classify_zone maps every E in [-10, 10] to exactly one zone, the
\* boundaries closed on the lower side: E <= -6 ExtremeNegative, -6 < E <= -2
\* Negative, -2 < E <= 2 Neutral, 2 < E <= 6 Positive, E > 6 OverheatPositive;
\* the values -6, -2, 2 and 6 belong to the lower zone.
C13_ZoneBoundaries ==
    [][/\ (state'.zone = "ExtremeNegative") = (state.E <= -60000)
       /\ (state'.zone = "Negative") = (-60000 < state.E /\ state.E <= -20000)
       /\ (state'.zone = "Neutral") = (-20000 < state.E /\ state.E <= 20000)
       /\ (state'.zone = "Positive") = (20000 < state.E /\ state.E <= 60000)
       /\ (state'.zone = "OverheatPositive") = (state.E > 60000)
       /\ state.E = -60000 => state'.zone = "ExtremeNegative"
       /\ state.E = -20000 => state'.zone = "Negative"
       /\ state.E = 20000 => state'.zone = "Neutral"
       /\ state.E = 60000 => state'.zone = "Positive"]_vars

\* the boundary value -6 classified into the lower zone
C13_Witness ==
    /\ state.turn = 0
    /\ state.E = -60000
    /\ state.zone = "ExtremeNegative"

\* C14: classify_phase takes the first matching rule in priority order:
\* E <= -6 with delta_E > 0 is CrashRecovery even when delta_E > 0.5, E > 6
\* with delta_E < 0 is Peak even when delta_E < -0.5, otherwise delta_E < -0.5
\* is Declining, delta_E > 0.5 is Rising, and everything else is Stable.
C14_PhasePriority ==
    [][LET E == state.E
           d == state.delta_E
           crash == E <= -60000 /\ d > 0
           peak == E > 60000 /\ d < 0
       IN  /\ crash => state'.phase = "CrashRecovery"
           /\ peak => state'.phase = "Peak"
           /\ (~crash /\ ~peak /\ d < -5000) => state'.phase = "Declining"
           /\ (~crash /\ ~peak /\ d > 5000) => state'.phase = "Rising"
           /\ (~crash /\ ~peak /\ d >= -5000 /\ d <= 5000) =>
                  state'.phase = "Stable"]_vars

\* E = -7 with delta_E = +1, where both CrashRecovery and Rising match
C14_Witness ==
    /\ state.turn = 0
    /\ state.E = -70000
    /\ state.delta_E = 10000
    /\ state.phase = "CrashRecovery"

\* C15: the flags of the state returned by update_evc are recomputed from
\* scratch: sarcasm, anger, anxiety, stress, boundary_setting and mood_swing
\* are functions of the current emotion alone and crisis of E_next alone, so a
\* flag set in the previous state whose condition fails this turn is false.
C15_FlagsRecomputed ==
    state.turn >= 1 =>
        /\ state.flags.sarcasm = (emotion.sarcasm_prob > 5)
        /\ state.flags.anger =
               (emotion.valence < -5 /\ emotion.arousal > 7
                /\ emotion.dominance > 6)
        /\ state.flags.anxiety =
               (emotion.valence < -3 /\ emotion.arousal > 6
                /\ emotion.dominance < 4)
        /\ state.flags.stress = (emotion.arousal > 7 /\ emotion.support_need > 6)
        /\ state.flags.boundary_setting =
               (emotion.dominance > 7 /\ emotion.intent = "aggression")
        /\ state.flags.mood_swing =
               ((emotion.valence > 7 \/ emotion.valence < -7)
                /\ emotion.arousal > 6)
        /\ state.flags.crisis = (state.E <= -60000)

\* a neutral turn right after a turn that had raised flags: the sensitivity K
\* of this turn still carries the risk score of the previous flags, and no
\* flag is set in the new state
C15_Witness ==
    /\ state.turn = 2
    /\ emotion = DefaultEmotion
    /\ forces.K > 12100
    /\ state.flags = NoFlags

\* C16: every update_evc appends the delta_E of the new state to
\* delta_history and keeps the last 5 entries: the history has min(turn, 5)
\* entries, its last entry is the delta_E of the state, the entries before it
\* are the previous history in the same order, and once 5 are held the oldest
\* entry is the one dropped.
C16_DeltaHistoryWindow ==
    [][LET h == state.delta_history
           h2 == state'.delta_history
       IN  /\ Len(h2) = (IF Len(h) < 5 THEN Len(h) + 1 ELSE 5)
           /\ Len(h2) = (IF state'.turn < 5 THEN state'.turn ELSE 5)
           /\ h2[Len(h2)] = state'.delta_E
           /\ \A i \in 1..(Len(h2) - 1) : h2[i] = h[Len(h) - Len(h2) + 1 + i]]_vars

\* the window is full, at least two entries have been dropped, and the
\* entries it holds are not all the same
C16_Witness ==
    /\ state.turn >= 7
    /\ Len(state.delta_history) = 5
    /\ state.delta_history[1] # state.delta_history[5]
    /\ state.delta_history[5] = state.delta_E

\* C17: the session starts at turn 0 and every update_evc returns a state
\* whose turn is the previous turn plus exactly 1, so without a reset the
\* counter never decreases or repeats and equals the number of updates applied.
C17_TurnCounts ==
    /\ state.turn = 0
    /\ [][state'.turn = state.turn + 1]_vars

\* four updates have been applied: the counter is 4 and the history holds
\* one delta_E per update
C17_Witness ==
    /\ state.turn = 4
    /\ Len(state.delta_history) = 4

\* C18: update_evc accepts an empty, partial or over-full hormone_levels map:
\* the turn starts from the map's level for each of the 8 hormones it names
\* and from the baseline for each hormone it does not name, keys that name no
\* hormone play no part, and the returned hormone_levels map has exactly the
\* 8 hormone names as its keys.
C18_RestoreTolerant ==
    [][LET stored == state.hormone_levels
           start == [n \in Hormones |->
                       IF n \in DOMAIN stored THEN stored[n] ELSE baseline[n]]
       IN  /\ DOMAIN state'.hormone_levels = Hormones
           /\ state'.hormone_levels = cocktail_update(start, emotion')]_vars

\* the first turn from a map that named cortisol at 8.0 and left other
\* hormones out: cortisol is still far above anything one turn from the
\* baseline produces, and all 8 hormones are present
C18_Witness ==
    /\ state.turn = 1
    /\ emotion = DefaultEmotion
    /\ DOMAIN state.hormone_levels = Hormones
    /\ state.hormone_levels.cortisol > 50000
    /\ state.hormone_levels.serotonin < 39000

\* C19 as stated: the lead_force applied in a turn is strictly positive only
\* when E_user < -0.5 has held for at least 3 consecutive turns
\* (user_negative_streak >= 3) and zero on every turn before that, and it is
\* strictly positive on the third consecutive such turn.
C19_LeadOnlyAfterStreak ==
    state.turn >= 1 =>
        /\ lead_force(state.bot_pacing_turns, ToMicro(state.E)) > 0
               => state.bot_negative_streak >= 3
        /\ state.bot_negative_streak = 3
               => lead_force(state.bot_pacing_turns, ToMicro(state.E)) > 0

\* C19 amended: the lead_force applied in a turn is strictly positive only
\* when the updated pacing_turns is at least min_pacing + 1 = 3 and E_user < 0;
\* it is zero on the first two turns of a session, and strictly positive on
\* every turn on which E_user < -0.5 has held for at least 3 consecutive turns.
C19_LeadAfterPacing ==
    state.turn >= 1 =>
        /\ lead_force(state.bot_pacing_turns, ToMicro(state.E)) > 0
               => (state.bot_pacing_turns >= min_pacing + 1 /\ state.E < 0)
        /\ state.turn <= 2
               => lead_force(state.bot_pacing_turns, ToMicro(state.E)) = 0
        /\ state.bot_negative_streak >= 3
               => lead_force(state.bot_pacing_turns, ToMicro(state.E)) > 0

\* the third consecutive turn with E_user < -0.5: the bot starts to lead
C19_Witness ==
    /\ state.bot_negative_streak = 3
    /\ state.bot_pacing_turns = 3
    /\ state.E < -5000
    /\ lead_force(state.bot_pacing_turns, ToMicro(state.E)) = 400000

\* C20: a bot mirroring update with E_user < -0.5 raises both
\* user_negative_streak and pacing_turns by exactly 1; any other update sets
\* user_negative_streak to 0 and lowers pacing_turns by exactly 1, stopping
\* at 0.
C20_PacingCounters ==
    [][IF state'.E < -5000
       THEN /\ state'.bot_negative_streak = state.bot_negative_streak + 1
            /\ state'.bot_pacing_turns = state.bot_pacing_turns + 1
       ELSE /\ state'.bot_negative_streak = 0
            /\ state'.bot_pacing_turns =
                   (IF state.bot_pacing_turns > 0
                    THEN state.bot_pacing_turns - 1 ELSE 0)]_vars

\* the user has just left the negative range after a run of negative turns:
\* the streak is back at 0 while pacing_turns has only gone down by one
C20_Witness ==
    /\ state.turn >= 4
    /\ state.E >= -5000
    /\ state.bot_negative_streak = 0
    /\ state.bot_pacing_turns >= 2

\* C21: in every state reached from the initial state by update_evc calls,
\* bot_E lies in [-8, 8] and bot_pacing_turns and bot_negative_streak are
\* integers that are not negative.
C21_BotStateInRange ==
    /\ state.bot_E \in -80000..80000
    /\ state.bot_pacing_turns \in Nat
    /\ state.bot_negative_streak \in Nat

\* a run of negative turns: the bot has followed the user below zero and
\* both counters have been raised
C21_Witness ==
    /\ state.turn >= 3
    /\ state.bot_E < -5000
    /\ state.bot_pacing_turns >= 2
    /\ state.bot_negative_streak >= 2

\* C22: the tone is decided by bot_E alone: below -3 deep_empathy, from -3
\* up to but not including 0 gentle_support, from 0 up to but not including 2
\* soft_encouragement, from 2 on hopeful_lead; get_bot_tone(state) returns
\* that label whatever the pacing counters are, and the instruction returned
\* for the state is the table entry of that label.
C22_ToneOfBotE ==
    LET bot_E == returned.args[1]
        label == IF bot_E < -30000 THEN "deep_empathy"
                 ELSE IF bot_E < 0 THEN "gentle_support"
                 ELSE IF bot_E < 20000 THEN "soft_encouragement"
                 ELSE "hopeful_lead"
    IN  /\ returned.fn = "get_bot_tone" => returned.value = label
        /\ returned.fn = "get_bot_tone_instruction" =>
               /\ label \in DOMAIN instructions
               /\ returned.value = instructions[label]

\* the tone of a state whose bot_E is exactly -3.0 and whose counters are set
C22_Witness ==
    /\ returned.fn = "get_bot_tone"
    /\ returned.args = <<-30000, 3, 1>>
    /\ returned.value = "gentle_support"

C24_UpdateOrderAndSnapshot ==
    /\ returned.fn = "cocktail_update" =>
           LET produced == Production(returned.args[1], returned.args[2])
               interacted ==
                   [n \in Hormones |->
                       LET i == CHOOSE k \in 1..8 : HORMONE_ORDER[k] = n
                           s == interaction_sum(produced, i)
                       IN  IF s > 0 THEN Min(LevelMax, produced[n] + s)
                           ELSE IF s < 0 THEN Max(0, produced[n] + s)
                           ELSE produced[n]]
           IN  returned.value = [n \in Hormones |-> decay(n, interacted[n])]
    /\ returned.fn = "apply_interactions" =>
           returned.value =
               apply_interactions(Production(returned.args[1], returned.args[2]))

\* the interaction step with its targets taken in reverse order, on levels
\* where one target is stimulated and another is suppressed
C24_Witness ==
    /\ returned.fn = "apply_interactions"
    /\ returned.args[3] = <<8, 7, 6, 5, 4, 3, 2, 1>>
    /\ \E n, m \in Hormones :
           /\ returned.value[n] >
                  Production(returned.args[1], returned.args[2])[n]
           /\ returned.value[m] <
                  Production(returned.args[1], returned.args[2])[m]

\* C25: get_dominant_state returns the label of the hormone whose level is
\* furthest above its baseline, the first such hormone of the enumeration
\* order when several are equally far, and "neutral" when that largest
\* difference is below 0.5, as it is for a cocktail at its baselines.
C25_DominantState ==
    returned.fn = "get_dominant_state" =>
        LET levels == returned.args[1]
            diff(k) == levels[HORMONE_ORDER[k]] - baseline[HORMONE_ORDER[k]]
            first == CHOOSE k \in 1..8 :
                         /\ \A j \in 1..8 : diff(j) <= diff(k)
                         /\ \A j \in 1..(k - 1) : diff(j) < diff(k)
        IN  returned.value =
                (IF diff(first) < 5000 THEN "neutral"
                 ELSE state_map[HORMONE_ORDER[first]])

\* dopamine and gaba are both exactly 0.5 above their baselines: the earlier
\* one in the enumeration order gives the label
C25_Witness ==
    /\ returned.fn = "get_dominant_state"
    /\ returned.args[2] = "gaba"
    /\ returned.args[3] = "dopamine"
    /\ returned.args[1]["gaba"] = baseline["gaba"] + 5000
    /\ returned.value = "excited"

\* C26: the policy string of get_response_policy is the directives for
\* crisis, sarcasm, anger, anxiety, the zone, the phase and mood_swing, in
\* that order and joined by the separator; a flag's directive is there
\* exactly when the flag is set, the zone's directive always, and the phase's
\* directive exactly for CrashRecovery, Declining and Rising.
C26_PolicyOrder ==
    returned.fn = "get_response_policy" =>
        LET zone == returned.args[1]
            phase == returned.args[2]
            flags == returned.args[3]
            steps == <<"CRISIS MODE", "sarcasm detected", "anger", "anxiety",
                       zone_policy[zone],
                       IF phase \in {"CrashRecovery", "Declining", "Rising"}
                       THEN phase_policy[phase] ELSE "none",
                       "mood swing">>
            fires == <<flags.crisis, flags.sarcasm, flags.anger, flags.anxiety,
                       TRUE, phase \in {"CrashRecovery", "Declining", "Rising"},
                       flags.mood_swing>>
            count(k) == Cardinality({j \in 1..k : fires[j]})
            policy == returned.value
        IN  /\ Len(policy) = 2 * count(7) - 1
            /\ \A k \in 1..7 : fires[k] => policy[2 * count(k) - 1] = steps[k]
            /\ \A i \in 1..(count(7) - 1) : policy[2 * i] = " | "

\* crisis together with other flags in a recovering extreme-negative state:
\* the crisis directive is first and six directives follow it
C26_Witness ==
    /\ returned.fn = "get_response_policy"
    /\ returned.args[3].crisis /\ returned.args[3].mood_swing
    /\ returned.args[3].sarcasm /\ returned.args[3].anger
    /\ returned.args[3].anxiety
    /\ returned.args[2] = "CrashRecovery"
    /\ Len(returned.value) = 13
    /\ returned.value[1] = "CRISIS MODE"

\* C27: for a range-valid emotion and any state, compute_forces returns S and
\* D in [0, 1] and K in [0.5, 2.5], and the forces returned by update_evc,
\* whose S is the biased one, are in the same ranges.
C27_ForcesInRange ==
    /\ returned.fn = "compute_forces" =>
           /\ returned.value.S \in 0..10000
           /\ returned.value.D \in 0..10000
           /\ returned.value.K \in 5000..25000
    /\ returned.fn = "update_evc" =>
           /\ returned.value.forces.S \in 0..10000
           /\ returned.value.forces.D \in 0..10000
           /\ returned.value.forces.K \in 5000..25000

\* the largest drag the inputs can produce, with every flag of the state set
C27_Witness ==
    /\ returned.fn = "compute_forces"
    /\ returned.args[1].valence = -10
    /\ returned.args[1].dominance = 10
    /\ returned.args[1].sarcasm_prob = 10
    /\ returned.args[1].uncertainty = 10
    /\ returned.args[1].arousal = 10
    /\ returned.args[3] = AllFlags
    /\ returned.value.D = 9000
    /\ returned.value.K = 19000

\* C28: for a fixed S, apply_therapeutic_bias(S, E) is S for every E >= 0, is
\* strictly above S for a negative E while S < 1, does not decrease as E gets
\* more negative, and is always in [0, 1].
C28_TherapeuticBias ==
    returned.fn = "apply_therapeutic_bias" =>
        LET S == returned.args[1]
            E_lower == returned.args[2]
            E_upper == returned.args[3]
            lower == returned.value.lower
            upper == returned.value.upper
        IN  /\ lower \in 0..10000 /\ upper \in 0..10000
            /\ E_lower >= 0 => lower = S
            /\ E_upper >= 0 => upper = S
            /\ (E_lower < 0 /\ S < 10000) => lower > S
            /\ (E_upper < 0 /\ S < 10000) => upper > S
            /\ lower >= upper

\* S = 0.3 biased for E = -8 and for E = -2: both above 0.3, the first the
\* larger
C28_Witness ==
    /\ returned.fn = "apply_therapeutic_bias"
    /\ returned.args = <<3000, -80000, -20000>>
    /\ returned.value.lower > returned.value.upper
    /\ returned.value.upper > 3000

\* C29: every state update_evc builds from a range-valid emotion and a state
\* reached from the initial one satisfies the constraints of EVCState, so the
\* update does not raise: E, E_prev and the stored E_target, which is the
\* blend before rate limiting, are in [-10, 10], the zone and the phase are
\* members of their enumerations and the flags are booleans.
C29_StateValid ==
    /\ ValidEmotion(emotion)
    /\ state.E \in -100000..100000
    /\ state.E_prev \in -100000..100000
    /\ state.E_target \in -100000..100000
    /\ state.zone \in Zones
    /\ state.phase \in Phases
    /\ \A f \in DOMAIN state.flags : state.flags[f] \in BOOLEAN
    /\ state.turn \in Nat
    /\ state.bot_pacing_turns \in Int /\ state.bot_negative_streak \in Int

\* a turn whose blend lies more than MAX_DELTA from the previous energy, so
\* that the stored E_target is not the new E
C29_Witness ==
    /\ state.turn >= 1
    /\ state.E_target # state.E
    /\ state.E_target - state.E_prev > 30000

\* C30: the bot fields of the previous state do not reach the user's side of
\* the new state: two previous states that differ only in bot_E,
\* bot_pacing_turns and bot_negative_streak give, for the same emotion, the
\* same E, delta_E, E_target, zone, phase, flags, hormone_levels and
\* dominant_state.
C30_BotDoesNotFeedBack ==
    returned.fn = "update_evc twice" =>
        \A field \in {"E", "delta_E", "E_target", "zone", "phase", "flags",
                      "hormone_levels", "dominant_state"} :
            returned.value.first[field] = returned.value.second[field]

\* two previous states with different bot fields, whose new states differ in
\* the bot's energy
C30_Witness ==
    /\ returned.fn = "update_evc twice"
    /\ returned.args[2].bot_E = -30000
    /\ returned.args[3].bot_E = 50000
    /\ returned.value.first.bot_E < returned.value.second.bot_E
    /\ returned.value.first.bot_pacing_turns
           # returned.value.second.bot_pacing_turns

\* C31: update_evc with the neutral emotion (valence 0, every other feature
\* at its default) on a state whose E is positive returns a state with a
\* smaller E.
C31_NeutralLowersPositiveE ==
    [][(state.E > 0 /\ emotion' = DefaultEmotion) => state'.E < state.E]_vars

\* C32: in the state update_evc returns for a state with E in [-10, 10],
\* E_prev is the E of the state passed in, E is E_prev + delta_E on the
\* 4-decimal grid, and E lies between E_prev and the blended target E_target,
\* so the clamp of E to [-10, 10] changes nothing and delta_E is the change
\* of E that took place.
C32_DeltaIsActualChange ==
    [][/\ state'.E_prev = state.E
       /\ state'.E = state'.E_prev + state'.delta_E
       /\ \/ (state'.E_prev <= state'.E /\ state'.E <= state'.E_target)
          \/ (state'.E_target <= state'.E /\ state'.E <= state'.E_prev)]_vars

\* a rate-limited turn from E = -10: E has gone up by MAX_DELTA and is still
\* short of the blended target
C32_Witness ==
    /\ state.turn >= 1
    /\ state.E_prev = -100000
    /\ state.delta_E = 30000
    /\ state.E = -70000
    /\ state.E_target > state.E

C34_StreakAtMostPacing ==
    state.bot_negative_streak <= state.bot_pacing_turns

\* a negative turn that follows a turn that was not negative: the streak has
\* restarted while pacing_turns had only stepped down by one
C34_Witness ==
    /\ state.bot_negative_streak >= 1
    /\ state.bot_pacing_turns > state.bot_negative_streak
    /\ state.E < -5000

\* C35: for every zone, phase and flag set the policy returned by
\* get_response_policy holds exactly one zone directive and between 1 and 7
\* directives in all, and never the default "respond naturally" directive.
C35_OneZoneDirective ==
    returned.fn = "get_response_policy" =>
        LET policy == returned.value
            directives == {i \in 1..Len(policy) : policy[i] # " | "}
            zone_directives ==
                {i \in directives :
                    \E z \in DOMAIN zone_policy : policy[i] = zone_policy[z]}
        IN  /\ Cardinality(zone_directives) = 1
            /\ Cardinality(directives) \in 1..7
            /\ \A i \in directives : policy[i] # "natural, friendly"

\* no flag set, Neutral zone, Stable phase: the zone directive is the whole
\* policy
C35_Witness ==
    /\ returned.fn = "get_response_policy"
    /\ returned.args[1] = "Neutral"
    /\ returned.args[2] = "Stable"
    /\ returned.args[3] = NoFlags
    /\ returned.value = <<zone_policy["Neutral"]>>

C38_ZonePhaseFlagsConsistent ==
    state.turn >= 1 =>
        /\ state.phase = "CrashRecovery" =>
               (state.zone = "ExtremeNegative" /\ state.flags.crisis)
        /\ state.phase = "Peak" => state.zone = "OverheatPositive"
        /\ state.phase = "Stable" => Abs(state.delta_E) <= 5000

\* a returned state that is recovering from a crash: E has risen and is still
\* at or below -6
C38_Witness ==
    /\ state.turn >= 1
    /\ state.phase = "CrashRecovery"
    /\ state.zone = "ExtremeNegative"
    /\ state.flags.crisis
    /\ state.delta_E > 0
    /\ state.E <= -60000

----------------------------------------------------------------------------
(* Claims about the service *)

\* C9: the load-update-save cycle of process_message is not atomic: the call
\* stores the state computed from the state it loaded, whatever was stored in
\* between, so that of two concurrent calls for one user that loaded the same
\* state only one turn survives (turn advanced by 1 instead of 2).
C9_SaveOverwrites ==
    [][\A t \in Tasks :
          (tasks[t].pc = "generating" /\ tasks'[t].pc = "done") =>
              /\ store'[tasks[t].user_id] = tasks[t].new_state
              /\ store'[tasks[t].user_id].turn = tasks[t].current_state.turn + 1]_vars

\* two calls for one user loaded the same state, both returned, two messages
\* were recorded and the stored turn advanced by one only
C9_Witness ==
    \E p \in Tasks, q \in Tasks, u \in Users :
        /\ p # q
        /\ tasks[p].op = "process" /\ tasks[p].pc = "done" /\ tasks[p].user_id = u
        /\ tasks[q].op = "process" /\ tasks[q].pc = "done" /\ tasks[q].user_id = u
        /\ tasks[p].current_state = tasks[q].current_state
        /\ tasks[p].emotion # tasks[q].emotion
        /\ Len(conversations[u]) = 2
        /\ store[u] = tasks[q].new_state
        /\ store[u].turn = tasks[p].current_state.turn + 1

\* C10: in any interleaving of process_message and reset_state calls, the
\* stored state and the conversation of a user change only in a step of a call
\* for that user, a call loads the state stored for its own user, and what it
\* stores is the result of its own load and message.
C10_UserIsolation ==
    [][/\ \A u \in Users :
            (store'[u] # store[u] \/ conversations'[u] # conversations[u]) =>
                \E t \in Tasks :
                    /\ tasks'[t].user_id = u
                    /\ tasks'[t].pc = "done"
                    /\ tasks'[t] # tasks[t]
                    /\ store'[u] = IF tasks'[t].op = "reset"
                                   THEN create_initial_state(store'[u].timestamp)
                                   ELSE update_evc(tasks[t].current_state,
                                                   tasks[t].emotion,
                                                   store'[u].timestamp).state
       /\ \A t \in Tasks :
            (tasks[t].pc # "extracting" /\ tasks'[t].pc = "extracting") =>
                tasks'[t].current_state =
                    get_evc_state(store, tasks'[t].user_id,
                                  tasks'[t].current_state.timestamp)]_vars

\* a call for A has stored its state while a call for B, which loaded before
\* that, is still in flight and nothing is stored for B
C10_Witness ==
    \E p \in Tasks, q \in Tasks :
        /\ tasks[p].user_id = "A" /\ tasks[p].op = "process" /\ tasks[p].pc = "done"
        /\ tasks[q].user_id = "B" /\ tasks[q].pc = "generating"
        /\ store["A"] = tasks[p].new_state
        /\ store["B"] = NoState
        /\ tasks[q].current_state.turn = 0

\* C11: when reset_state(user) completes, the state stored for the user is a
\* fresh initial state (E = 0, turn = 0, empty delta_history, hormones at
\* baseline, bot at rest, no flags) whatever was stored before; no field of
\* the previous state survives.
C11_ResetStoresInitial ==
    [][\A t \in Tasks :
          (tasks'[t] # tasks[t] /\ tasks'[t].op = "reset") =>
              LET st == store'[tasks'[t].user_id]
              IN  /\ st.E = 0 /\ st.E_prev = 0 /\ st.delta_E = 0
                  /\ st.E_target = 0
                  /\ st.zone = "Neutral" /\ st.phase = "Stable"
                  /\ st.turn = 0
                  /\ st.delta_history = <<>>
                  /\ st.hormone_levels = baseline
                  /\ st.bot_E = 0 /\ st.bot_pacing_turns = 0
                  /\ st.bot_negative_streak = 0
                  /\ st.flags = NoFlags
                  /\ st.dominant_state = "neutral"]_vars

\* a reset that came after a completed turn of the same user: one message is
\* recorded, the call that stored turn 1 has returned, and the stored state is
\* fresh again
C11_Witness ==
    \E p \in Tasks, q \in Tasks, u \in Users :
        /\ tasks[p].op = "process" /\ tasks[p].pc = "done" /\ tasks[p].user_id = u
        /\ tasks[p].new_state.turn = 1
        /\ tasks[q].op = "reset" /\ tasks[q].user_id = u
        /\ tasks[q].request > tasks[p].request
        /\ Len(conversations[u]) = 1
        /\ store[u].turn = 0
        /\ store[u].hormone_levels = baseline

============================================================================
